---- MODULE Spec2Model ----
(***************************************************************************)
(* Model of the two data structures of TVC_NanoCartSD:                     *)
(*   CircularQueue  (CircularQueue.h / CircularQueue.cpp)                  *)
(*   PathStack      (PathStack.h / PathStack.cpp)                          *)
(* The queue is used by one producer context (push, pushBlock) and one     *)
(* consumer context (pop).  Every access to a volatile cursor and every    *)
(* access to a byte of the storage is one step of the model; accesses are  *)
(* taken in program order, operands left to right.                         *)
(***************************************************************************)
EXTENDS Integers, Sequences, FiniteSets, TLC

\* ---------------------------------------------------------------- bounds
MaxN == 3          \* largest constructor argument n that is explored
MaxSmallN == 2     \* the same where the queries or fairness are added
MaxPushed == 5     \* bytes handed to push/pushBlock while the history is kept
MaxBlock == 3      \* largest dataLength handed to pushBlock
MaxPureSize == 6   \* storage lengths 1..MaxPureSize (and BYTE_MAX) for the queries
MaxSeg == 2        \* number of different segments handed to PathStack::push
MaxPathLen == 3    \* longest source string handed to getAbsolutePath

\* ------------------------------------------------------ program constants
BYTE_MOD == 256            \* byte is an 8-bit unsigned integer
BYTE_MAX == 255
MAX_PATHSTACK_SIZE == 8

\* The queue never inspects the bytes it stores: two different byte values,
\* the smallest and the largest, are enough to tell stored bytes apart.
Byte == {0, BYTE_MAX}

VARIABLES
  \* CircularQueue members
  maxSize, buffer, startPos, endPos,
  \* producer context: position and the locals of push / pushBlock / getSize
  ppc, data, dataLength, nextEndPos, copyLength, e, s, pt, i,
  \* consumer context: position and the locals of pop
  cpc, ct, retVal,
  \* context that runs clear()
  kpc,
  \* result of the last isEmpty / isFull / getSize query
  qres,
  \* PathStack members and the value returned by the last PathStack call
  stack, pos, ret,
  \* history of PathStack: the segments pushed and not dropped, outermost
  \* first, and the value of pos before the last call
  astack, prevPos,
  \* history: constructor argument, bytes given to push/pushBlock and bytes
  \* returned by pop since construction or the last clear, number of
  \* bytes the last clear discarded, whether the history is kept
  ctorN, pushed, popped, discarded, hist,
  \* history: the slots written since construction or the last clear, and
  \* the value endPos had when clear() overtook the push in progress (-1
  \* when no clear has overtaken it)
  fresh, raced

queueVars    == <<maxSize, buffer, startPos, endPos>>
producerVars == <<ppc, data, dataLength, nextEndPos, copyLength, e, s, pt, i>>
consumerVars == <<cpc, ct, retVal>>
stackVars    == <<stack, pos, ret, astack, prevPos>>
histVars     == <<ctorN, pushed, popped, discarded, hist, fresh, raced>>
vars == <<queueVars, producerVars, consumerVars, kpc, qres, stackVars, histVars>>

\* the positions of push between its wait loop and its store to endPos
PushWindow == {"push_idx", "push_store", "push_set"}

\* ------------------------------------------------------ CircularQueue, pure
\* byte getIncrementedPos(byte pos)
getIncrementedPos(p) ==
  LET incPos == (p + 1) % BYTE_MOD
  IN  IF incPos = maxSize THEN 0 ELSE incPos

\* getSize() returning e-s in both branches
getSizeInt_NoWrap(ee, ss) ==
  IF ee >= ss THEN ee - ss
              ELSE ee - ss

\* lines 49-52: the value that getSize() computes in int from e and s
getSizeInt(ee, ss) ==
  IF ee >= ss THEN ee - ss
              ELSE (ee + maxSize) - ss

\* body of getSize() once e and s have been read; the result is a byte
getSizeOf(ee, ss) == getSizeInt(ee, ss) % BYTE_MOD

getSize == getSizeOf(endPos, startPos)

isEmpty == startPos = endPos

\* isFull() without the test for the write cursor in the last slot
isFull_NoWrap ==
  LET ee == endPos
      ss == startPos
  IN  ss = ee + 1

\* e+1 and maxSize-1 are computed in int
isFull ==
  LET ee == endPos
      ss == startPos
  IN  ss = ee + 1 \/ (ee = maxSize - 1 /\ ss = 0)

\* the bytes that successive pops read from the cursors (s_, e_)
RECURSIVE PopAll(_, _, _)
PopAll(ss, ee, k) ==
  IF ss = ee \/ k = 0 THEN <<>>
  ELSE <<buffer[ss]>> \o PopAll(getIncrementedPos(ss), ee, k - 1)

\* ------------------------------------------------------------ initial state
ProducerIdle ==
  /\ ppc = "idle" /\ data = <<>> /\ dataLength = 0 /\ nextEndPos = 0
  /\ copyLength = 0 /\ e = 0 /\ s = 0 /\ pt = 0 /\ i = 0

ConsumerIdle == cpc = "idle" /\ ct = 0 /\ retVal = 0

\* PathStack::PathStack(): pos = 0, the entries are not initialised
StackInit(g) ==
  /\ stack = [k \in 0..(MAX_PATHSTACK_SIZE - 1) |-> g]
  /\ pos = 0
  /\ ret = [op |-> "PathStack", ok |-> TRUE, str |-> <<>>]
  /\ astack = <<>>
  /\ prevPos = 0

\* the constructor without the reserved slot: maxSize = n
QueueInit_NoReserve(n) ==
  /\ ctorN = n
  /\ maxSize = n % BYTE_MOD
  /\ \E g \in Byte : buffer = [k \in 0..(maxSize - 1) |-> g]
  /\ startPos = 0
  /\ endPos = 0

\* CircularQueue::CircularQueue(int n): the storage comes from malloc and
\* is not initialised, every slot holds the same arbitrary byte
QueueInit(n) ==
  /\ ctorN = n
  /\ maxSize = (n + 1) % BYTE_MOD
  /\ \E g \in Byte : buffer = [k \in 0..(maxSize - 1) |-> g]
  /\ startPos = 0
  /\ endPos = 0

\* the segments and the source strings that are handed to PathStack
SegList == << <<0, 2>>, <<2, 3>>, <<1, 1>>, <<3, 1>>, <<0, 4>>, <<4, 5>> >>
Segs == {SegList[k] : k \in 1..MaxSeg}
Alphabet == <<"a", "b", "c", "d", "e", "f">>
Paths == {SubSeq(Alphabet, 1, k) : k \in (MaxPathLen - 1)..MaxPathLen}

Init ==
  /\ \E n \in 1..MaxN : QueueInit(n)
  /\ ProducerIdle /\ ConsumerIdle /\ kpc = "idle" /\ qres = [op |-> "none", b |-> FALSE, n |-> 0]
  /\ StackInit(<<0, 0>>)
  /\ pushed = <<>> /\ popped = <<>> /\ discarded = 0 /\ hist = TRUE
  /\ fresh = {} /\ raced = -1

\* --------------------------------------------------------------- push
\* void push(byte data): the call
PushCall(d) ==
  /\ ppc = "idle"
  /\ hist => Len(pushed) < MaxPushed
  /\ ppc' = "push_inc"
  /\ data' = <<d>>
  /\ dataLength' = 1
  /\ pushed' = IF hist THEN Append(pushed, d) ELSE pushed
  /\ UNCHANGED <<queueVars, nextEndPos, copyLength, e, s, pt, i, consumerVars,
                 kpc, qres, stackVars, ctorN, popped, discarded, hist,
                 fresh, raced>>

\* push that takes endPos itself as the next position
PushInc_NoInc ==
  /\ ppc = "push_inc"
  /\ nextEndPos' = endPos
  /\ ppc' = "push_wait"
  /\ UNCHANGED <<queueVars, data, dataLength, nextEndPos, copyLength, e, s, pt, i,
                 consumerVars, kpc, qres, stackVars, histVars>>

\* line 22: byte nextEndPos = getIncrementedPos(endPos)
PushInc ==
  /\ ppc = "push_inc"
  /\ nextEndPos' = getIncrementedPos(endPos)
  /\ ppc' = "push_wait"
  /\ UNCHANGED <<queueVars, data, dataLength, copyLength, e, s, pt, i,
                 consumerVars, kpc, qres, stackVars, histVars>>

\* push without its wait loop
PushWait_NoWait ==
  /\ ppc = "push_wait"
  /\ ppc' = "push_idx"
  /\ UNCHANGED <<queueVars, data, dataLength, nextEndPos, copyLength, e, s,
                 pt, i, consumerVars, kpc, qres, stackVars, histVars>>

\* line 23: while(nextEndPos == startPos) {}
PushWait ==
  /\ ppc = "push_wait"
  /\ ppc' = IF nextEndPos = startPos THEN "push_wait" ELSE "push_idx"
  /\ UNCHANGED <<queueVars, data, dataLength, nextEndPos, copyLength, e, s,
                 pt, i, consumerVars, kpc, qres, stackVars, histVars>>

\* line 24: the read of endPos in buffer[endPos]
PushIdx ==
  /\ ppc = "push_idx"
  /\ pt' = endPos
  /\ ppc' = "push_store"
  /\ UNCHANGED <<queueVars, data, dataLength, nextEndPos, copyLength, e, s, i,
                 consumerVars, kpc, qres, stackVars, histVars>>

\* line 24: buffer[endPos] = data
PushStore ==
  /\ ppc = "push_store"
  /\ buffer' = [buffer EXCEPT ![pt] = data[1]]
  /\ fresh' = IF hist THEN fresh \cup {pt} ELSE fresh
  /\ ppc' = "push_set"
  /\ UNCHANGED <<maxSize, startPos, endPos, data, dataLength, nextEndPos,
                 copyLength, e, s, pt, i, consumerVars, kpc, qres, stackVars,
                 ctorN, pushed, popped, discarded, hist, raced>>

\* push that computes the next position again when it stores endPos
PushSet_Reread ==
  /\ ppc = "push_set"
  /\ endPos' = getIncrementedPos(endPos)
  /\ ppc' = "push_ret"
  /\ UNCHANGED <<maxSize, buffer, startPos, data, dataLength, nextEndPos,
                 copyLength, e, s, pt, i, consumerVars, kpc, qres, stackVars,
                 histVars>>

\* line 25: endPos = nextEndPos
PushSet ==
  /\ ppc = "push_set"
  /\ endPos' = nextEndPos
  /\ ppc' = "push_ret"
  /\ UNCHANGED <<maxSize, buffer, startPos, data, dataLength, nextEndPos,
                 copyLength, e, s, pt, i, consumerVars, kpc, qres, stackVars,
                 histVars>>

\* line 26: push returns, its locals die
PushRet ==
  /\ ppc = "push_ret"
  /\ ppc' = "idle" /\ data' = <<>> /\ dataLength' = 0 /\ nextEndPos' = 0
  /\ pt' = 0
  /\ raced' = -1
  /\ UNCHANGED <<queueVars, copyLength, e, s, i, consumerVars, kpc, qres,
                 stackVars,
                 ctorN, pushed, popped, discarded, hist, fresh>>

\* ------------------------------------------------------------ pushBlock
\* void pushBlock(byte dataLength, byte *data): the call
BlockCall(L, d) ==
  /\ ppc = "idle"
  /\ hist => Len(pushed) + L <= MaxPushed
  /\ ppc' = "blk_gsE"
  /\ data' = d
  /\ dataLength' = L
  /\ pushed' = IF hist THEN pushed \o d ELSE pushed
  /\ UNCHANGED <<queueVars, nextEndPos, copyLength, e, s, pt, i, consumerVars,
                 kpc, qres, stackVars, ctorN, popped, discarded, hist,
                 fresh, raced>>

\* line 57 calls getSize(); line 47: byte e = endPos
BlockGsE ==
  /\ ppc = "blk_gsE"
  /\ e' = endPos
  /\ ppc' = "blk_gsS"
  /\ UNCHANGED <<queueVars, data, dataLength, nextEndPos, copyLength, s, pt, i,
                 consumerVars, kpc, qres, stackVars, histVars>>

\* the wait loop of pushBlock with > in place of >=
BlockGsS_OffByOne ==
  /\ ppc = "blk_gsS"
  /\ s' = startPos
  /\ ppc' = IF getSizeOf(e, s') + dataLength > maxSize
            THEN "blk_gsE" ELSE "blk_min"
  /\ UNCHANGED <<queueVars, data, dataLength, nextEndPos, copyLength, e, pt, i,
                 consumerVars, kpc, qres, stackVars, histVars>>

\* line 48: byte s = startPos; lines 49-52: the size; line 57: the test of
\* while(getSize()+dataLength >= maxSize) {}, computed in int
BlockGsS ==
  /\ ppc = "blk_gsS"
  /\ s' = startPos
  /\ ppc' = IF getSizeOf(e, s') + dataLength >= maxSize
            THEN "blk_gsE" ELSE "blk_min"
  /\ UNCHANGED <<queueVars, data, dataLength, nextEndPos, copyLength, e, pt, i,
                 consumerVars, kpc, qres, stackVars, histVars>>

\* line 58: min(dataLength, maxSize - endPos): the read of endPos in the
\* comparison; copyLength is a byte
BlockMin ==
  /\ ppc = "blk_min"
  /\ IF dataLength < maxSize - endPos
     THEN /\ copyLength' = dataLength % BYTE_MOD
          /\ ppc' = "blk_dst"
     ELSE /\ copyLength' = copyLength
          /\ ppc' = "blk_min2"
  /\ UNCHANGED <<queueVars, data, dataLength, nextEndPos, e, s, pt, i,
                 consumerVars, kpc, qres, stackVars, histVars>>

\* the first copy made one byte longer than the room up to the storage end
BlockMin2_OffByOne ==
  /\ ppc = "blk_min2"
  /\ copyLength' = (maxSize - endPos + 1) % BYTE_MOD
  /\ ppc' = "blk_dst"
  /\ UNCHANGED <<queueVars, data, dataLength, nextEndPos, e, s, pt, i,
                 consumerVars, kpc, qres, stackVars, histVars>>

\* line 58: the second operand of min is read again when it is the result
BlockMin2 ==
  /\ ppc = "blk_min2"
  /\ copyLength' = (maxSize - endPos) % BYTE_MOD
  /\ ppc' = "blk_dst"
  /\ UNCHANGED <<queueVars, data, dataLength, nextEndPos, e, s, pt, i,
                 consumerVars, kpc, qres, stackVars, histVars>>

\* line 59: the read of endPos in &buffer[endPos]
BlockDst ==
  /\ ppc = "blk_dst"
  /\ pt' = endPos
  /\ i' = 0
  /\ ppc' = "blk_cpy1"
  /\ UNCHANGED <<queueVars, data, dataLength, nextEndPos, copyLength, e, s,
                 consumerVars, kpc, qres, stackVars, histVars>>

\* the first copy done as a loop that moves endPos with every byte
BlockCpy1_Publishing ==
  /\ ppc = "blk_cpy1"
  /\ IF i < copyLength
     THEN /\ buffer' = [buffer EXCEPT ![pt + i] = data[i + 1]]
          /\ endPos' = getIncrementedPos(endPos)
          /\ fresh' = IF hist THEN fresh \cup {pt + i} ELSE fresh
          /\ i' = i + 1
          /\ ppc' = ppc
     ELSE /\ buffer' = buffer
          /\ endPos' = endPos
          /\ fresh' = fresh
          /\ i' = 0
          /\ ppc' = IF copyLength # dataLength THEN "blk_cpy2" ELSE "blk_ret"
  /\ UNCHANGED <<maxSize, startPos, data, dataLength, nextEndPos,
                 copyLength, e, s, pt, consumerVars, kpc, qres, stackVars,
                 ctorN, pushed, popped, discarded, hist, raced>>

\* line 59: memcpy(&buffer[endPos], data, copyLength), one byte per step;
\* line 60: if(copyLength != dataLength)
BlockCpy1 ==
  /\ ppc = "blk_cpy1"
  /\ IF i < copyLength
     THEN /\ buffer' = [buffer EXCEPT ![pt + i] = data[i + 1]]
          /\ fresh' = IF hist THEN fresh \cup {pt + i} ELSE fresh
          /\ i' = i + 1
          /\ ppc' = ppc
     ELSE /\ buffer' = buffer
          /\ fresh' = fresh
          /\ i' = 0
          /\ ppc' = IF copyLength # dataLength THEN "blk_cpy2" ELSE "blk_chk"
  /\ UNCHANGED <<maxSize, startPos, endPos, data, dataLength, nextEndPos,
                 copyLength, e, s, pt, consumerVars, kpc, qres, stackVars,
                 ctorN, pushed, popped, discarded, hist, raced>>

\* the second copy reading from data instead of &data[copyLength]
BlockCpy2_FromStart ==
  /\ ppc = "blk_cpy2"
  /\ IF i < dataLength - copyLength
     THEN /\ buffer' = [buffer EXCEPT ![i] = data[i + 1]]
          /\ fresh' = IF hist THEN fresh \cup {i} ELSE fresh
          /\ i' = i + 1
          /\ ppc' = ppc
     ELSE /\ buffer' = buffer
          /\ fresh' = fresh
          /\ i' = 0
          /\ ppc' = "blk_setWrap"
  /\ UNCHANGED <<maxSize, startPos, endPos, data, dataLength, nextEndPos,
                 copyLength, e, s, pt, consumerVars, kpc, qres, stackVars,
                 ctorN, pushed, popped, discarded, hist, raced>>

\* line 61: memcpy(buffer, &data[copyLength], dataLength - copyLength)
BlockCpy2 ==
  /\ ppc = "blk_cpy2"
  /\ IF i < dataLength - copyLength
     THEN /\ buffer' = [buffer EXCEPT ![i] = data[copyLength + i + 1]]
          /\ fresh' = IF hist THEN fresh \cup {i} ELSE fresh
          /\ i' = i + 1
          /\ ppc' = ppc
     ELSE /\ buffer' = buffer
          /\ fresh' = fresh
          /\ i' = 0
          /\ ppc' = "blk_setWrap"
  /\ UNCHANGED <<maxSize, startPos, endPos, data, dataLength, nextEndPos,
                 copyLength, e, s, pt, consumerVars, kpc, qres, stackVars,
                 ctorN, pushed, popped, discarded, hist, raced>>

\* line 62: endPos = dataLength - copyLength
BlockSetWrap ==
  /\ ppc = "blk_setWrap"
  /\ endPos' = (dataLength - copyLength) % BYTE_MOD
  /\ ppc' = "blk_ret"
  /\ UNCHANGED <<maxSize, buffer, startPos, data, dataLength, nextEndPos,
                 copyLength, e, s, pt, i, consumerVars, kpc, qres, stackVars,
                 histVars>>

\* pushBlock without the test for a block that ends at the storage end
BlockChk_NoWrap ==
  /\ ppc = "blk_chk"
  /\ ppc' = "blk_rdAdd"
  /\ UNCHANGED <<queueVars, data, dataLength, nextEndPos, copyLength, e, s, pt,
                 i, consumerVars, kpc, qres, stackVars, histVars>>

\* line 64: if(dataLength+endPos==maxSize), computed in int
BlockChk ==
  /\ ppc = "blk_chk"
  /\ ppc' = IF dataLength + endPos = maxSize THEN "blk_set0" ELSE "blk_rdAdd"
  /\ UNCHANGED <<queueVars, data, dataLength, nextEndPos, copyLength, e, s, pt,
                 i, consumerVars, kpc, qres, stackVars, histVars>>

\* line 65: endPos = 0
BlockSet0 ==
  /\ ppc = "blk_set0"
  /\ endPos' = 0
  /\ ppc' = "blk_ret"
  /\ UNCHANGED <<maxSize, buffer, startPos, data, dataLength, nextEndPos,
                 copyLength, e, s, pt, i, consumerVars, kpc, qres, stackVars,
                 histVars>>

\* line 67: the read of endPos in endPos += dataLength
BlockRdAdd ==
  /\ ppc = "blk_rdAdd"
  /\ pt' = endPos
  /\ ppc' = "blk_wrAdd"
  /\ UNCHANGED <<queueVars, data, dataLength, nextEndPos, copyLength, e, s, i,
                 consumerVars, kpc, qres, stackVars, histVars>>

\* line 67: the write of endPos in endPos += dataLength
BlockWrAdd ==
  /\ ppc = "blk_wrAdd"
  /\ endPos' = (pt + dataLength) % BYTE_MOD
  /\ ppc' = "blk_ret"
  /\ UNCHANGED <<maxSize, buffer, startPos, data, dataLength, nextEndPos,
                 copyLength, e, s, pt, i, consumerVars, kpc, qres, stackVars,
                 histVars>>

\* line 69: pushBlock returns, its locals die
BlockRet ==
  /\ ppc = "blk_ret"
  /\ ppc' = "idle" /\ data' = <<>> /\ dataLength' = 0 /\ copyLength' = 0
  /\ e' = 0 /\ s' = 0 /\ pt' = 0 /\ i' = 0
  /\ UNCHANGED <<queueVars, nextEndPos, consumerVars, kpc, qres, stackVars,
                 histVars>>

\* ---------------------------------------------------------------- pop
\* byte pop(): the call
PopCall ==
  /\ cpc = "idle"
  /\ cpc' = "pop_rdStart"
  /\ UNCHANGED <<queueVars, producerVars, ct, retVal, kpc, qres, stackVars,
                 histVars>>

\* line 29: the read of startPos in while(startPos == endPos) {}
PopRdStart ==
  /\ cpc = "pop_rdStart"
  /\ ct' = startPos
  /\ cpc' = "pop_rdEnd"
  /\ UNCHANGED <<queueVars, producerVars, retVal, kpc, qres, stackVars,
                 histVars>>

\* pop without its wait loop
PopRdEnd_NoWait ==
  /\ cpc = "pop_rdEnd"
  /\ cpc' = "pop_idx"
  /\ UNCHANGED <<queueVars, producerVars, ct, retVal, kpc, qres, stackVars,
                 histVars>>

\* line 29: the read of endPos and the test
PopRdEnd ==
  /\ cpc = "pop_rdEnd"
  /\ cpc' = IF ct = endPos THEN "pop_rdStart" ELSE "pop_idx"
  /\ UNCHANGED <<queueVars, producerVars, ct, retVal, kpc, qres, stackVars,
                 histVars>>

\* line 30: the read of startPos in buffer[startPos]
PopIdx ==
  /\ cpc = "pop_idx"
  /\ ct' = startPos
  /\ cpc' = "pop_load"
  /\ UNCHANGED <<queueVars, producerVars, retVal, kpc, qres, stackVars,
                 histVars>>

\* line 30: byte retVal = buffer[startPos]
PopLoad ==
  /\ cpc = "pop_load"
  /\ retVal' = buffer[ct]
  /\ cpc' = "pop_rdInc"
  /\ UNCHANGED <<queueVars, producerVars, ct, kpc, qres, stackVars, histVars>>

\* line 31: the read of startPos in getIncrementedPos(startPos)
PopRdInc ==
  /\ cpc = "pop_rdInc"
  /\ ct' = startPos
  /\ cpc' = "pop_set"
  /\ UNCHANGED <<queueVars, producerVars, retVal, kpc, qres, stackVars,
                 histVars>>

\* pop that leaves startPos where it is
PopSet_NoAdvance ==
  /\ cpc = "pop_set"
  /\ startPos' = ct
  /\ cpc' = "pop_ret"
  /\ UNCHANGED <<maxSize, buffer, endPos, producerVars, ct, retVal, kpc, qres,
                 stackVars, histVars>>

\* pop that rewinds both cursors to 0 when it empties the queue
PopSet_Rewind ==
  /\ cpc = "pop_set"
  /\ IF getIncrementedPos(ct) = endPos
     THEN startPos' = 0 /\ endPos' = 0
     ELSE startPos' = getIncrementedPos(ct) /\ endPos' = endPos
  /\ cpc' = "pop_ret"
  /\ UNCHANGED <<maxSize, buffer, producerVars, ct, retVal, kpc, qres,
                 stackVars, histVars>>

\* line 31: startPos = getIncrementedPos(startPos)
PopSet ==
  /\ cpc = "pop_set"
  /\ startPos' = getIncrementedPos(ct)
  /\ cpc' = "pop_ret"
  /\ UNCHANGED <<maxSize, buffer, endPos, producerVars, ct, retVal, kpc, qres,
                 stackVars, histVars>>

\* line 32: return retVal
PopRet ==
  /\ cpc = "pop_ret"
  /\ popped' = IF hist THEN Append(popped, retVal) ELSE popped
  /\ cpc' = "idle" /\ ct' = 0 /\ retVal' = 0
  /\ UNCHANGED <<queueVars, producerVars, kpc, qres, stackVars, ctorN, pushed,
                 discarded, hist, fresh, raced>>

Producer ==
  \/ \E d \in Byte : PushCall(d)
  \/ PushInc \/ PushWait \/ PushIdx \/ PushStore \/ PushSet \/ PushRet
  \/ \E L \in 0..MaxBlock : \E d \in [1..L -> Byte] : BlockCall(L, d)
  \/ BlockGsE \/ BlockGsS \/ BlockMin \/ BlockMin2 \/ BlockDst \/ BlockCpy1
  \/ BlockCpy2 \/ BlockSetWrap \/ BlockChk \/ BlockSet0 \/ BlockRdAdd
  \/ BlockWrAdd \/ BlockRet

Consumer ==
  \/ PopCall \/ PopRdStart \/ PopRdEnd \/ PopIdx \/ PopLoad \/ PopRdInc
  \/ PopSet \/ PopRet

\* ---------------------------------------------- isEmpty, isFull, getSize
\* The caller is the producer or the consumer context outside of its own
\* operation, so at most one of the two cursors can change during the call
\* and that cursor is read once.
QueryCaller == (ppc = "idle" \/ cpc = "idle") /\ kpc = "idle"

\* lines 35-37
QueryIsEmpty ==
  /\ QueryCaller
  /\ qres' = [op |-> "isEmpty", b |-> isEmpty, n |-> 0]
  /\ UNCHANGED <<queueVars, producerVars, consumerVars, kpc, stackVars,
                 histVars>>

\* lines 39-44
QueryIsFull ==
  /\ QueryCaller
  /\ qres' = [op |-> "isFull", b |-> isFull, n |-> 0]
  /\ UNCHANGED <<queueVars, producerVars, consumerVars, kpc, stackVars,
                 histVars>>

\* lines 46-54
QueryGetSize ==
  /\ QueryCaller
  /\ qres' = [op |-> "getSize", b |-> FALSE, n |-> getSize]
  /\ UNCHANGED <<queueVars, producerVars, consumerVars, kpc, stackVars,
                 histVars>>

Query == QueryIsEmpty \/ QueryIsFull \/ QueryGetSize

\* --------------------------------------------------------------- clear
\* void clear(): the call
ClearCall ==
  /\ kpc = "idle"
  /\ kpc' = "clr_end"
  /\ UNCHANGED <<queueVars, producerVars, consumerVars, qres, stackVars,
                 histVars>>

\* clear that resets startPos only
ClearEnd_Skip ==
  /\ kpc = "clr_end"
  /\ endPos' = endPos
  /\ raced' = IF ppc \in PushWindow /\ raced = -1 THEN endPos ELSE raced
  /\ kpc' = "clr_start"
  /\ UNCHANGED <<maxSize, buffer, startPos, producerVars, consumerVars, qres,
                 stackVars,
                 ctorN, pushed, popped, discarded, hist, fresh>>

\* line 72: startPos = endPos = 0 assigns endPos first
ClearEnd ==
  /\ kpc = "clr_end"
  /\ endPos' = 0
  /\ raced' = IF ppc \in PushWindow /\ raced = -1 THEN endPos ELSE raced
  /\ kpc' = "clr_start"
  /\ UNCHANGED <<maxSize, buffer, startPos, producerVars, consumerVars, qres,
                 stackVars,
                 ctorN, pushed, popped, discarded, hist, fresh>>

\* line 72: then startPos; the bytes that were queued are discarded
ClearStart ==
  /\ kpc = "clr_start"
  /\ startPos' = 0
  /\ kpc' = "clr_ret"
  /\ discarded' = IF hist THEN Len(pushed) - Len(popped) ELSE discarded
  /\ pushed' = <<>>
  /\ popped' = <<>>
  /\ fresh' = {}
  /\ UNCHANGED <<maxSize, buffer, endPos, producerVars, consumerVars, qres,
                 stackVars, ctorN, hist, raced>>

\* line 73
ClearRet ==
  /\ kpc = "clr_ret"
  /\ kpc' = "idle"
  /\ UNCHANGED <<queueVars, producerVars, consumerVars, qres, stackVars,
                 histVars>>

\* ------------------------------------------------------------ PathStack
\* push with <= in place of <
StackPush_OffByOne(a, b) ==
  /\ IF pos <= MAX_PATHSTACK_SIZE
     THEN /\ stack' = [stack EXCEPT ![pos] = <<a, b>>]
          /\ pos' = (pos + 1) % BYTE_MOD
          /\ ret' = [op |-> "push", ok |-> TRUE, str |-> <<>>]
          /\ astack' = Append(astack, <<a, b>>)
     ELSE /\ ret' = [op |-> "push", ok |-> FALSE, str |-> <<>>]
          /\ UNCHANGED <<stack, pos, astack>>
  /\ prevPos' = pos
  /\ UNCHANGED <<queueVars, producerVars, consumerVars, kpc, qres, histVars>>

\* bool PathStack::push(byte startPos, byte endPos), PathStack.cpp lines 7-16
StackPush(a, b) ==
  /\ IF pos < MAX_PATHSTACK_SIZE
     THEN /\ stack' = [stack EXCEPT ![pos] = <<a, b>>]
          /\ pos' = (pos + 1) % BYTE_MOD
          /\ ret' = [op |-> "push", ok |-> TRUE, str |-> <<>>]
          /\ astack' = Append(astack, <<a, b>>)
     ELSE /\ ret' = [op |-> "push", ok |-> FALSE, str |-> <<>>]
          /\ UNCHANGED <<stack, pos, astack>>
  /\ prevPos' = pos
  /\ UNCHANGED <<queueVars, producerVars, consumerVars, kpc, qres, histVars>>

\* the value that dropTop() gives pos, PathStack.cpp lines 19-20
dropTopPos(p) == IF p > 0 THEN p - 1 ELSE p

\* dropTop without the test for the empty stack; pos is a byte
StackDropTop_NoGuard ==
  /\ pos' = (pos - 1) % BYTE_MOD
  /\ ret' = [op |-> "dropTop", ok |-> TRUE, str |-> <<>>]
  /\ astack' = IF astack = <<>> THEN astack
               ELSE SubSeq(astack, 1, Len(astack) - 1)
  /\ prevPos' = pos
  /\ UNCHANGED <<stack, queueVars, producerVars, consumerVars, kpc, qres,
                 histVars>>

\* void PathStack::dropTop(), PathStack.cpp lines 18-21
StackDropTop ==
  /\ pos' = dropTopPos(pos)
  /\ ret' = [op |-> "dropTop", ok |-> TRUE, str |-> <<>>]
  /\ astack' = IF astack = <<>> THEN astack
               ELSE SubSeq(astack, 1, Len(astack) - 1)
  /\ prevPos' = pos
  /\ UNCHANGED <<stack, queueVars, producerVars, consumerVars, kpc, qres,
                 histVars>>

\* String::substring(left, right) of the Arduino core: the indices are
\* swapped when left > right, the result is empty when left is not inside
\* the string, and right is cut to the length of the string
substring(path, left, right) ==
  LET lo == IF left > right THEN right ELSE left
      hi == IF left > right THEN left ELSE right
  IN  IF lo >= Len(path) THEN <<>>
      ELSE SubSeq(path, lo + 1, IF hi > Len(path) THEN Len(path) ELSE hi)

\* the loop of getAbsolutePath, PathStack.cpp lines 25-27, from index k
RECURSIVE AbsolutePathFrom(_, _)
AbsolutePathFrom(path, k) ==
  IF k < pos
  THEN substring(path, stack[k][1], stack[k][2]) \o AbsolutePathFrom(path, k + 1)
  ELSE <<>>

\* getAbsolutePath with a loop that starts at index 1
StackGetAbsolutePath_SkipFirst(path) ==
  /\ ret' = [op |-> "getAbsolutePath", ok |-> TRUE,
             str |-> AbsolutePathFrom(path, 1)]
  /\ prevPos' = pos
  /\ UNCHANGED <<stack, pos, astack, queueVars, producerVars, consumerVars,
                 kpc, qres, histVars>>

\* getAbsolutePath that empties the stack while it resolves it
StackGetAbsolutePath_Consuming(path) ==
  /\ ret' = [op |-> "getAbsolutePath", ok |-> TRUE,
             str |-> AbsolutePathFrom(path, 0)]
  /\ prevPos' = pos
  /\ pos' = 0
  /\ UNCHANGED <<stack, astack, queueVars, producerVars, consumerVars,
                 kpc, qres, histVars>>

\* String PathStack::getAbsolutePath(String path), PathStack.cpp lines 23-29
StackGetAbsolutePath(path) ==
  /\ ret' = [op |-> "getAbsolutePath", ok |-> TRUE,
             str |-> AbsolutePathFrom(path, 0)]
  /\ prevPos' = pos
  /\ UNCHANGED <<stack, pos, astack, queueVars, producerVars, consumerVars,
                 kpc, qres, histVars>>

\* -------------------------------------------------------- specifications
Clear == ClearEnd \/ ClearStart \/ ClearRet

Next == Producer \/ Consumer

\* one producer, one consumer
Spec == Init /\ [][Next]_vars

\* one producer, one consumer, and the queries
InitQ ==
  /\ \E n \in 1..MaxSmallN : QueueInit(n)
  /\ ProducerIdle /\ ConsumerIdle /\ kpc = "idle"
  /\ qres = [op |-> "none", b |-> FALSE, n |-> 0]
  /\ StackInit(<<0, 0>>)
  /\ pushed = <<>> /\ popped = <<>> /\ discarded = 0 /\ hist = TRUE
  /\ fresh = {} /\ raced = -1

NextQ == Producer \/ Consumer \/ Query

SpecQ == InitQ /\ [][NextQ]_vars

\* clear() is called between sessions, when no operation is in progress
NextClear ==
  \/ kpc = "idle" /\ Producer
  \/ kpc = "idle" /\ Consumer
  \/ ppc = "idle" /\ cpc = "idle" /\ ClearCall
  \/ Clear

SpecClear == Init /\ [][NextClear]_vars

\* clear() is called from the consumer's context, between two pops, while
\* push is between its wait loop and its store to endPos; it runs to its end
\* before the other contexts go on
ClearRaceCall == ppc \in PushWindow /\ cpc = "idle" /\ ClearCall

\* a producer that calls push only
Pusher ==
  \/ \E d \in Byte : PushCall(d)
  \/ PushInc \/ PushWait \/ PushIdx \/ PushStore \/ PushSet \/ PushRet

NextRace ==
  \/ kpc = "idle" /\ Pusher
  \/ kpc = "idle" /\ Consumer
  \/ ClearRaceCall
  \/ Clear

SpecRace == InitQ /\ [][NextRace]_vars

\* the queries on every pair of cursors of a queue of storage length N
PureSizes == (1..MaxPureSize) \cup {BYTE_MAX}

InitPure ==
  /\ \E N \in PureSizes :
       /\ ctorN = N - 1
       /\ maxSize = N
       /\ buffer = [k \in 0..(N - 1) |-> 0]
       /\ startPos \in 0..(N - 1)
       /\ endPos \in 0..(N - 1)
  /\ ProducerIdle /\ ConsumerIdle /\ kpc = "idle"
  /\ qres = [op |-> "none", b |-> FALSE, n |-> 0]
  /\ StackInit(<<0, 0>>)
  /\ pushed = <<>> /\ popped = <<>> /\ discarded = 0 /\ hist = FALSE
  /\ fresh = {} /\ raced = -1

SpecPure == InitPure /\ [][Query]_vars

\* PathStack alone
InitStack ==
  /\ ctorN = 1 /\ maxSize = 2 /\ buffer = [k \in 0..1 |-> 0]
  /\ startPos = 0 /\ endPos = 0
  /\ ProducerIdle /\ ConsumerIdle /\ kpc = "idle"
  /\ qres = [op |-> "none", b |-> FALSE, n |-> 0]
  /\ \E g \in Segs : StackInit(g)
  /\ pushed = <<>> /\ popped = <<>> /\ discarded = 0 /\ hist = FALSE
  /\ fresh = {} /\ raced = -1

NextStack ==
  \/ \E sg \in Segs : StackPush(sg[1], sg[2])
  \/ StackDropTop
  \/ \E path \in Paths : StackGetAbsolutePath(path)

SpecStack == InitStack /\ [][NextStack]_vars

\* the producer and the consumer are scheduled weakly fairly; the history
\* is not kept, so the number of calls is not bounded
InitLive ==
  /\ \E n \in 1..MaxSmallN : QueueInit(n)
  /\ ProducerIdle /\ ConsumerIdle /\ kpc = "idle"
  /\ qres = [op |-> "none", b |-> FALSE, n |-> 0]
  /\ StackInit(<<0, 0>>)
  /\ pushed = <<>> /\ popped = <<>> /\ discarded = 0 /\ hist = FALSE
  /\ fresh = {} /\ raced = -1

ProducerStep ==
  \/ PushInc \/ PushWait \/ PushIdx \/ PushStore \/ PushSet \/ PushRet
  \/ BlockGsE \/ BlockGsS \/ BlockMin \/ BlockMin2 \/ BlockDst \/ BlockCpy1
  \/ BlockCpy2 \/ BlockSetWrap \/ BlockChk \/ BlockSet0 \/ BlockRdAdd
  \/ BlockWrAdd \/ BlockRet

ConsumerStep ==
  \/ PopRdStart \/ PopRdEnd \/ PopIdx \/ PopLoad \/ PopRdInc \/ PopSet
  \/ PopRet

LiveSpec ==
  /\ InitLive /\ [][Next]_vars
  /\ WF_vars(ProducerStep) /\ WF_vars(ConsumerStep)

\* ------------------------------------------------------------ properties
IsPrefix(a, b) == Len(a) <= Len(b) /\ SubSeq(b, 1, Len(a)) = a

\* bytes whose slot has been released by an update of startPos
Consumed == Len(popped) + (IF cpc = "pop_ret" THEN 1 ELSE 0)

\* bytes that an update of endPos has made visible to the consumer
Committed ==
  IF ppc \in {"push_ret", "blk_ret"} THEN Len(pushed)
  ELSE Len(pushed) - dataLength

\* the bytes that popping everything returns
Queued == PopAll(startPos, endPos, maxSize)

PushPcs == {"push_inc", "push_wait", "push_idx", "push_store", "push_set",
            "push_ret"}
PopPcs == {"pop_rdStart", "pop_rdEnd", "pop_idx", "pop_load", "pop_rdInc",
           "pop_set", "pop_ret"}
BlockCopyPcs == {"blk_min", "blk_min2", "blk_dst", "blk_cpy1", "blk_cpy2",
                 "blk_setWrap", "blk_chk", "blk_set0", "blk_rdAdd",
                 "blk_wrAdd"}

\* C1: the bytes returned by pop, the byte that a returning pop holds
\* included, are a prefix of the bytes given to push and pushBlock.
C1_Fifo ==
  /\ IsPrefix(popped, pushed)
  /\ cpc = "pop_ret" => IsPrefix(Append(popped, retVal), pushed)

C1_Witness ==
  /\ Len(popped) >= 3
  /\ popped[1] # popped[2]
  /\ ppc \in BlockCopyPcs
  /\ cpc = "pop_ret"

\* C2: for a storage length of 2..255 and any two cursors inside the
\* storage, isFull() is true exactly when getSize() is maxSize-1 and exactly
\* when (endPos+1) mod maxSize is startPos, isEmpty() is true exactly when
\* getSize() is 0, and a query returns these values.
C2_QueriesAgree ==
  maxSize >= 2 =>
    /\ isFull <=> getSize = maxSize - 1
    /\ isFull <=> (endPos + 1) % maxSize = startPos
    /\ isEmpty <=> getSize = 0
    /\ qres.op = "isFull" => (qres.b <=> getSize = maxSize - 1)
    /\ qres.op = "isEmpty" => (qres.b <=> getSize = 0)

C2_Witness ==
  /\ maxSize = BYTE_MAX /\ endPos = BYTE_MAX - 1 /\ startPos = 0
  /\ qres.op = "isFull" /\ qres.b

\* C3: when pushBlock returns, popping everything returns the bytes that
\* were queued and not yet popped followed by the block, in order.
C3_BlockRoundTrip ==
  ppc = "blk_ret" => Queued = SubSeq(pushed, Consumed + 1, Len(pushed))

\* the block was split across the end of the storage behind a queued byte
C3_Witness ==
  /\ ppc = "blk_ret"
  /\ copyLength >= 1 /\ copyLength < dataLength
  /\ Len(Queued) > dataLength

PublishPcs == {"push_set", "blk_setWrap", "blk_set0", "blk_wrAdd"}

C5_Occupancy ==
  /\ Committed - Consumed <= maxSize - 1
  /\ (endPos - startPos) % maxSize = Committed - Consumed
  /\ Queued = SubSeq(pushed, Consumed + 1, Committed)

C5_ReservedSlot ==
  /\ []C5_Occupancy
  /\ [][(ppc \in PublishPcs /\ ppc' \notin PublishPcs /\ dataLength >= 1)
          => endPos' # startPos']_vars

\* a block published into the last free slots while a pop is in progress
C5_Witness ==
  /\ ppc = "blk_ret" /\ dataLength >= 2
  /\ Committed - Consumed = maxSize - 1
  /\ endPos < startPos
  /\ cpc = "pop_load"

\* C6: while pushBlock copies, the occupancy that the cursors show does not
\* include any byte of the block, once it has updated endPos the occupancy
\* includes the whole block, and a pop that is about to read a slot reads a
\* slot that holds a published byte and that pushBlock does not write.
TargetSlots ==
  IF ppc \in BlockCopyPcs
  THEN {(endPos + k) % maxSize : k \in 0..(dataLength - 1)}
  ELSE {}

C6_NoPartialVisibility ==
  /\ ppc \in BlockCopyPcs =>
       getSize = (Len(pushed) - dataLength) - Consumed
  /\ ppc = "blk_ret" => getSize = Len(pushed) - Consumed
  /\ cpc = "pop_load" =>
       /\ Len(popped) < Committed
       /\ ct \notin TargetSlots
       /\ buffer[ct] = pushed[Len(popped) + 1]

\* a pop is about to read while the second memcpy of a split block runs
C6_Witness ==
  /\ ppc = "blk_cpy2" /\ i = 0 /\ dataLength - copyLength >= 1
  /\ cpc = "pop_load"

\* C7: if the consumer calls pop again whenever it is idle, every push
\* returns; if the producer calls push again whenever it is idle, every pop
\* returns.
C7_Liveness ==
  /\ ((cpc = "idle") ~> (cpc # "idle"))
       => ((ppc \in PushPcs) ~> (ppc = "idle"))
  /\ ((ppc = "idle") ~> (ppc \in PushPcs))
       => ((cpc \in PopPcs) ~> (cpc = "idle"))

\* push spins on a full queue while pop is in progress
C7_Witness ==
  /\ ppc = "push_wait" /\ nextEndPos = startPos
  /\ cpc = "pop_rdEnd"

\* C8: a step of push or pushBlock leaves startPos unchanged, a step of pop
\* leaves endPos and the storage unchanged, a query leaves all three
\* unchanged.
C8_SingleWriter ==
  [][ /\ Producer => startPos' = startPos
      /\ Consumer => (endPos' = endPos /\ buffer' = buffer)
      /\ Query => (startPos' = startPos /\ endPos' = endPos /\ buffer' = buffer)
    ]_vars

C8_Witness ==
  /\ ppc = "blk_ret" /\ cpc = "pop_ret"
  /\ qres.op = "getSize" /\ qres.n >= 1

\* C9: when clear() returns both cursors are 0, isEmpty() is true,
\* isFull() is false and getSize() is 0; the bytes popped after it are a
\* prefix of the bytes pushed after it.
C9_Clear ==
  /\ kpc = "clr_ret" =>
       /\ startPos = 0 /\ endPos = 0
       /\ isEmpty /\ ~isFull /\ getSize = 0
  /\ IsPrefix(popped, pushed)
  /\ kpc = "idle" => Queued = SubSeq(pushed, Consumed + 1, Committed)

\* a full queue was cleared, bytes were pushed and popped afterwards
C9_Witness ==
  /\ maxSize >= 3 /\ discarded = maxSize - 1
  /\ Len(popped) >= 2 /\ kpc = "idle"

\* C10: PathStack::push returns true exactly when pos is below
\* MAX_PATHSTACK_SIZE and then increases pos by one; at MAX_PATHSTACK_SIZE
\* it returns false and changes neither pos nor an entry; pos never exceeds
\* MAX_PATHSTACK_SIZE.
C10_PushStep ==
  \A sg \in Segs :
    StackPush(sg[1], sg[2]) =>
      /\ ret'.ok <=> pos < MAX_PATHSTACK_SIZE
      /\ pos < MAX_PATHSTACK_SIZE => pos' = pos + 1
      /\ pos = MAX_PATHSTACK_SIZE => (pos' = pos /\ stack' = stack)

C10_PushCapacity ==
  /\ [](pos \in 0..MAX_PATHSTACK_SIZE)
  /\ [][C10_PushStep]_vars

C10_Witness ==
  /\ pos = MAX_PATHSTACK_SIZE
  /\ ret.op = "push" /\ ~ret.ok
  /\ \E j, k \in 0..(MAX_PATHSTACK_SIZE - 1) : stack[j] # stack[k]

\* the characters of path at the offsets a, a+1, ..., b-1 that exist
Slice(path, a, b) ==
  LET hi == IF b > Len(path) THEN Len(path) ELSE b
  IN  IF hi > a THEN [k \in 1..(hi - a) |-> path[a + k]] ELSE <<>>

\* the segments of a stack resolved against path, outermost first
RECURSIVE Resolve(_, _)
Resolve(path, segs) ==
  IF segs = <<>> THEN <<>>
  ELSE Slice(path, Head(segs)[1], Head(segs)[2]) \o Resolve(path, Tail(segs))

\* C11: getAbsolutePath(path) returns the concatenation, outermost first, of
\* the slices of path for exactly the segments that were pushed with success
\* and not removed by dropTop; the entries below pos are these segments.
C11_ResolveStep ==
  \A path \in Paths :
    StackGetAbsolutePath(path) => ret'.str = Resolve(path, astack)

C12_DropStep ==
  /\ StackDropTop =>
       /\ pos = 0 => (pos' = 0 /\ stack' = stack)
       /\ pos > 0 => (pos' = pos - 1 /\ stack' = stack)
  /\ \A sg \in Segs :
       (StackPush(sg[1], sg[2]) /\ ret.op = "dropTop" /\ prevPos = 0)
         => (ret'.ok /\ pos' = 1 /\ stack'[0] = sg /\ astack' = <<sg>>)

C12_DropTop == [][C12_DropStep]_vars

\* dropTop was called on an empty stack whose entry 0 had been filled before
C12_Witness ==
  /\ ret.op = "dropTop" /\ prevPos = 0 /\ pos = 0
  /\ stack[0] # stack[1]

\* C18: pos stays in 0..MAX_PATHSTACK_SIZE; only push increases it, by one
\* and only below MAX_PATHSTACK_SIZE; only dropTop decreases it, to
\* max(pos-1, 0); getAbsolutePath changes neither pos nor an entry; pos
\* dropTop calls lead to depth 0, where MAX_PATHSTACK_SIZE pushes succeed.
RECURSIVE DropN(_, _)
DropN(p, k) == IF k = 0 THEN p ELSE DropN(dropTopPos(p), k - 1)

C18_DepthStep ==
  /\ pos' > pos =>
       /\ \E sg \in Segs : StackPush(sg[1], sg[2])
       /\ pos' = pos + 1 /\ pos < MAX_PATHSTACK_SIZE
  /\ pos' < pos => (StackDropTop /\ pos' = pos - 1)
  /\ StackDropTop => pos' = (IF pos - 1 > 0 THEN pos - 1 ELSE 0)
  /\ (\E path \in Paths : StackGetAbsolutePath(path))
       => (pos' = pos /\ stack' = stack)
  /\ \A sg \in Segs :
       (StackPush(sg[1], sg[2]) /\ pos < MAX_PATHSTACK_SIZE)
         => (ret'.ok /\ pos' = pos + 1)

C18_Depth ==
  /\ [](pos \in 0..MAX_PATHSTACK_SIZE /\ DropN(pos, pos) = 0)
  /\ [][C18_DepthStep]_vars

\* back at depth 0 by dropTop after the upper entries had been filled
C18_Witness ==
  /\ pos = 0 /\ ret.op = "dropTop" /\ prevPos = 1
  /\ stack[MAX_PATHSTACK_SIZE - 1] # stack[MAX_PATHSTACK_SIZE - 2]
  /\ stack[MAX_PATHSTACK_SIZE - 2] # stack[MAX_PATHSTACK_SIZE - 3]

\* C13: with maxSize in 2..255 both cursors stay in 0..maxSize-1 under push,
\* pushBlock, pop and clear, both are 0 after construction, and every slot
\* that pop reads and that push or a memcpy of pushBlock writes is in
\* 0..maxSize-1.
C13_Bounds ==
  /\ maxSize \in 2..BYTE_MAX
  /\ startPos \in 0..(maxSize - 1)
  /\ endPos \in 0..(maxSize - 1)
  /\ (pushed = <<>> /\ discarded = 0 /\ kpc = "idle")
       => (startPos = 0 /\ endPos = 0)
  /\ cpc = "pop_load" => ct \in 0..(maxSize - 1)
  /\ ppc = "push_store" => pt \in 0..(maxSize - 1)
  /\ (ppc = "blk_cpy1" /\ i < copyLength) => (pt + i) \in 0..(maxSize - 1)
  /\ (ppc = "blk_cpy2" /\ i < dataLength - copyLength)
       => i \in 0..(maxSize - 1)

\* after a clear, the second memcpy of a split block writes its last byte
\* while pop reads a slot
C13_Witness ==
  /\ discarded >= 1
  /\ ppc = "blk_cpy2" /\ i + 1 = dataLength - copyLength
  /\ pt + copyLength = maxSize
  /\ cpc = "pop_load"

\* C14: for every maxSize in 1..255 and all cursors below maxSize, getSize()
\* returns (endPos - startPos) mod maxSize, and the value it computes in int
\* is in 0..255, so the conversion to byte does not change it.
C14_GetSize ==
  /\ getSizeInt(endPos, startPos) \in 0..BYTE_MAX
  /\ getSize = (endPos - startPos) % maxSize
  /\ qres.op = "getSize" => qres.n = (endPos - startPos) % maxSize

\* getSize() called on the largest storage with the read cursor one slot
\* ahead of the write cursor
C14_Witness ==
  /\ maxSize = BYTE_MAX /\ endPos = 0 /\ startPos = 1
  /\ qres.op = "getSize" /\ qres.n = BYTE_MAX - 1

\* the write cursor after k calls of push that started at cursor p
RECURSIVE IncN(_, _)
IncN(p, k) == IF k = 0 THEN p ELSE IncN(getIncrementedPos(p), k - 1)

BlockPcs == {"blk_gsE", "blk_gsS", "blk_ret"} \cup BlockCopyPcs

\* C15: when pushBlock(L, data) returns, endPos is where L calls of push
\* would have put it, (old endPos + L) mod maxSize, byte k of data is in the
\* slot that the k-th push would have written, slot (old endPos + k) mod
\* maxSize, no step of pushBlock changes startPos, and pushBlock with L = 0
\* changes neither a cursor nor the storage.
C15_AtReturn ==
  ppc = "blk_ret" =>
    /\ endPos = IncN(e, dataLength)
    /\ endPos = (e + dataLength) % maxSize
    /\ \A k \in 0..(dataLength - 1) :
         /\ IncN(e, k) = (e + k) % maxSize
         /\ buffer[IncN(e, k)] = data[k + 1]

C15_BlockStep ==
  (ProducerStep /\ ppc \in BlockPcs) =>
    /\ startPos' = startPos
    /\ dataLength = 0 => UNCHANGED queueVars

C15_BlockAsPushes == []C15_AtReturn /\ [][C15_BlockStep]_vars

\* a block has returned that wrapped around the storage end
C15_Witness ==
  /\ ppc = "blk_ret" /\ dataLength >= 2
  /\ endPos >= 1 /\ endPos < e
  /\ buffer[e] # buffer[0]

\* the slots that can be filled before the queue is full
Free == (maxSize - 1) - ((endPos - startPos) % maxSize)

\* C16: a step of pop never lowers the number of free slots; from the moment
\* push has seen nextEndPos # startPos until it stores endPos at least one
\* slot is free, and from the moment the wait loop of pushBlock has seen
\* getSize() + dataLength < maxSize until pushBlock stores endPos at least
\* dataLength slots are free.
C16_Checked ==
  /\ ppc \in PushWindow => Free >= 1
  /\ ppc \in BlockCopyPcs => Free >= dataLength

C16_ChecksStay ==
  /\ []C16_Checked
  /\ [][Consumer => Free' >= Free]_vars

\* pushBlock is past its wait loop and pop has moved startPos since the
\* loop read it
C16_Witness ==
  /\ ppc \in BlockCopyPcs /\ dataLength >= 2
  /\ s # startPos
  /\ Free > dataLength

\* the slots that the cursors show as occupied
Occupied == {(startPos + k) % maxSize : k \in 0..(getSize - 1)}

\* C17 as stated: when clear() has run between the wait loop of a push and
\* its store to endPos, the occupancy after the store includes a slot that
\* was not written since the clear.
C17_OriginalStep ==
  (PushSet /\ raced >= 0) => (Occupied' \ fresh) # {}

C17_Original == [][C17_OriginalStep]_vars

\* C17: when clear() has run between the wait loop of a push and its store
\* to endPos, the store sets endPos to the position that follows the
\* endPos of before the clear while startPos is 0, so the occupancy is that
\* position; when it is 2 or more, the occupancy includes a slot that was
\* not written since the clear.
C17_RaceStep ==
  (PushSet /\ raced >= 0) =>
    /\ endPos' = getIncrementedPos(raced)
    /\ startPos' = 0
    /\ getSize' = endPos'
    /\ endPos' >= 2 => (Occupied' \ fresh) # {}

C17_ClearRace == [][C17_RaceStep]_vars

\* after such a push pop reads a slot that was not written since the clear
C17_Witness ==
  /\ cpc = "pop_load" /\ ct \notin fresh
  /\ ppc = "push_ret" /\ raced >= 1
  /\ discarded >= 1

BlockWaitPcs == {"blk_gsE", "blk_gsS"}

\* pushBlock is in progress with more bytes than maxSize-1
Oversized == ppc \in BlockPcs /\ dataLength > maxSize - 1

\* C19: a pushBlock of more than maxSize-1 bytes never leaves its wait loop,
\* whatever pop does, and none of its steps changes endPos or the storage.
C19_OversizedStep ==
  Oversized => (Oversized' /\ endPos' = endPos /\ buffer' = buffer)

C19_Oversized ==
  /\ [](Oversized => ppc \in BlockWaitPcs)
  /\ [][C19_OversizedStep]_vars

\* an oversized pushBlock spins on an empty queue that pop has emptied and
\* on which pop spins as well
C19_Witness ==
  /\ Oversized /\ ppc = "blk_gsS"
  /\ isEmpty /\ Len(popped) >= 1
  /\ cpc = "pop_rdEnd"

PushSpinning == ppc = "push_wait" /\ nextEndPos = startPos

BlockSpinning ==
  /\ ppc \in BlockWaitPcs /\ dataLength <= maxSize - 1
  /\ getSize + dataLength >= maxSize

PopSpinning == cpc \in {"pop_rdStart", "pop_rdEnd"} /\ startPos = endPos

\* the step of push or pushBlock that makes at least one byte visible
PublishStep ==
  \/ PushSet
  \/ dataLength >= 1 /\ (BlockSetWrap \/ BlockSet0 \/ BlockWrAdd)

\* C20 as stated: push or a pushBlock of at most maxSize-1 bytes never spins
\* while pop spins, one pop releases a producer that spins on a full queue,
\* and one completed push releases a pop that spins on an empty queue.
C20_OriginalStep ==
  /\ (PopSet /\ (PushSpinning \/ BlockSpinning) /\ Free = 0)
       => ~(PushSpinning \/ BlockSpinning)'
  /\ (PublishStep /\ PopSpinning) => ~PopSpinning'

C20_Original ==
  /\ [](~((PushSpinning \/ BlockSpinning) /\ PopSpinning))
  /\ [][C20_OriginalStep]_vars

\* C20: push or a pushBlock of at most maxSize-1 bytes never spins while pop
\* spins; one pop releases a push that spins on a full queue; a pushBlock of
\* dataLength bytes spins exactly while fewer than dataLength slots are
\* free and every pop frees one slot; one completed push or pushBlock of at
\* least one byte releases a pop that spins on an empty queue.
C20_ReleaseStep ==
  /\ (PopSet /\ PushSpinning) => ~PushSpinning'
  /\ PopSet => Free' = Free + 1
  /\ (PublishStep /\ PopSpinning) => ~PopSpinning'

C20_NoMutualBlock ==
  /\ [](~((PushSpinning \/ BlockSpinning) /\ PopSpinning))
  /\ []((ppc \in BlockWaitPcs /\ dataLength <= maxSize - 1)
          => (BlockSpinning <=> Free < dataLength))
  /\ [][C20_ReleaseStep]_vars

\* a pushBlock of two or more bytes spins on a full queue while a pop is
\* about to move startPos
C20_Witness ==
  /\ BlockSpinning /\ ppc = "blk_gsS" /\ dataLength >= 2
  /\ Free = 0
  /\ cpc = "pop_set"

====
